---------------------------- MODULE Spec2Model ----------------------------
(***************************************************************************)
(* A model of libpchtxt's Patch Text parser (src/pchtxt.cpp):              *)
(* getPchtxtMeta, the meta pass, and parsePchtxt, the main pass, reading   *)
(* the same std::istream one line at a time.                               *)
(*                                                                         *)
(* A std::string is a sequence of one-character strings.  A size_t is kept *)
(* as its representative modulo 2^64 nearest to zero, so std::string::npos *)
(* (2^64 - 1) is -1 and a negative count stands for a count larger than    *)
(* every string.                                                           *)
(***************************************************************************)
EXTENDS Integers, Sequences, FiniteSets, TLC

(***************************************************************************)
(* Characters and the <cctype> predicates the parser uses                  *)
(***************************************************************************)

\* std::isspace in the "C" locale (\v is left out: it has no TLA+ escape)
Whitespace == {" ", "\t", "\n", "\r", "\f"}

isspace(ch) == ch \in Whitespace

UpperCase == <<"A", "B", "C", "D", "E", "F", "G", "H", "I", "J", "K", "L", "M",
               "N", "O", "P", "Q", "R", "S", "T", "U", "V", "W", "X", "Y", "Z">>

LowerCase == <<"a", "b", "c", "d", "e", "f", "g", "h", "i", "j", "k", "l", "m",
               "n", "o", "p", "q", "r", "s", "t", "u", "v", "w", "x", "y", "z">>

ToLowerCase == [c \in {UpperCase[i] : i \in 1..Len(UpperCase)} |->
                   LowerCase[CHOOSE i \in 1..Len(UpperCase) : UpperCase[i] = c]]

\* std::tolower in the "C" locale
tolower(ch) == IF ch \in DOMAIN ToLowerCase THEN ToLowerCase[ch] ELSE ch

Digits == <<"0", "1", "2", "3", "4", "5", "6", "7", "8", "9">>

isdigit(ch) == \E i \in 1..Len(Digits) : Digits[i] = ch

DigitValue(ch) == (CHOOSE i \in 1..Len(Digits) : Digits[i] = ch) - 1

(***************************************************************************)
(* std::string operations                                                  *)
(***************************************************************************)

\* std::string::npos, 2^64 - 1, as its representative modulo 2^64
Npos == -1

\* std::find_if over [from, end) with the predicate "ch is in chars" (member
\* TRUE) or "ch is not in chars" (member FALSE): the first 1-based index
\* i >= from whose character satisfies it, or Len(s) + 1 (the end iterator)
FindIf(s, from, chars, member) ==
    LET I == {i \in from..Len(s) : (s[i] \in chars) = member}
    IN  IF I = {} THEN Len(s) + 1 ELSE CHOOSE i \in I : \A j \in I : i <= j

\* std::find_if over reverse iterators: the last 1-based index whose
\* character satisfies the predicate, or 0 (rend)
FindLastIf(s, chars, member) ==
    LET I == {i \in 1..Len(s) : (s[i] \in chars) = member}
    IN  IF I = {} THEN 0 ELSE CHOOSE i \in I : \A j \in I : j <= i

\* std::string::find(ch): 0-based position of the first ch, or npos
Find(s, ch) ==
    LET i == FindIf(s, 1, {ch}, TRUE)
    IN  IF i > Len(s) THEN Npos ELSE i - 1

\* std::string::rfind(ch): 0-based position of the last ch, or npos
RFind(s, ch) ==
    LET i == FindLastIf(s, {ch}, TRUE)
    IN  IF i = 0 THEN Npos ELSE i - 1

\* std::string::substr(pos, count) throws std::out_of_range iff pos > size()
SubstrThrows(s, pos) == pos < 0 \/ pos > Len(s)

\* std::string::substr(pos, count) for pos <= size(): the characters
\* [pos, min(pos + count, size())), pos 0-based; a negative count is a
\* size_t above 2^63
Substr(s, pos, count) ==
    LET last == IF count < 0 \/ pos + count > Len(s) THEN Len(s) ELSE pos + count
    IN  SubSeq(s, pos + 1, last)

\* std::string::substr(pos)
SubstrFrom(s, pos) == Substr(s, pos, Npos)

(***************************************************************************)
(* utils (src/pchtxt.cpp)                                                  *)
(***************************************************************************)

isStartsWith(checkedStr, targetStr) ==
    Len(checkedStr) >= Len(targetStr)
    /\ Substr(checkedStr, 0, Len(targetStr)) = targetStr

ltrim(str) == SubSeq(str, FindIf(str, 1, Whitespace, FALSE), Len(str))

rtrim(str) == SubSeq(str, 1, FindLastIf(str, Whitespace, FALSE))

trim(str) == rtrim(ltrim(str))

firstToken(str) == SubSeq(str, 1, FindIf(str, 1, Whitespace, TRUE) - 1)

\* scans left to right; pos counts the characters passed before the first
\* '/' met while isInString is false
RECURSIVE commentPosFrom(_, _, _)
commentPosFrom(str, i, isInString) ==
    IF i > Len(str) THEN Len(str)
    ELSE IF str[i] = "/" /\ ~isInString THEN i - 1
    ELSE commentPosFrom(str, i + 1, IF str[i] = "\"" THEN ~isInString ELSE isInString)

\* a variant that takes the first '/' wherever it stands
commentPosAnySlash(str) ==
    IF Find(str, "/") = Npos THEN Len(str) ELSE Find(str, "/")

commentPos(str) == commentPosFrom(str, 1, FALSE)

getLineCommentContent(str) ==
    SubSeq(str, FindIf(str, commentPos(str) + 1, Whitespace \cup {"/"}, FALSE), Len(str))

getLineNoComment(lineStr) == rtrim(Substr(lineStr, 0, commentPos(lineStr)))

\* a variant that leaves the letters as they are
getStringAsIs(str) == str

getStringToLowerCase(str) == [i \in 1..Len(str) |-> tolower(str[i])]


(***************************************************************************)
(* CONSTANTS (src/pchtxt.cpp)                                              *)
(***************************************************************************)

COMMENT_IDENTIFIER == "/"
ECHO_IDENTIFIER == "#"
AUTHOR_IDENTIFIER_OPEN == "["
AUTHOR_IDENTIFIER_CLOSE == "]"
AMS_CHEAT_IDENTIFIER_OPEN == "["
AMS_CHEAT_IDENTIFIER_CLOSE == "]"
\* meta tags
TITLE_TAG == <<"@", "t", "i", "t", "l", "e">>
PROGRAM_ID_TAG == <<"@", "p", "r", "o", "g", "r", "a", "m">>
URL_TAG == <<"@", "u", "r", "l">>
NSOBID_TAG == <<"@", "n", "s", "o", "b", "i", "d">>
META_TAGS == {TITLE_TAG, PROGRAM_ID_TAG, URL_TAG, NSOBID_TAG}
\* parsing tags
ENABLED_TAG == <<"@", "e", "n", "a", "b", "l", "e", "d">>
DISABLED_TAG == <<"@", "d", "i", "s", "a", "b", "l", "e", "d">>
STOP_PARSING_TAG == <<"@", "s", "t", "o", "p">>
FLAG_TAG == <<"@", "f", "l", "a", "g">>
\* patch type strings
PATCH_TYPE_BIN == <<"b", "i", "n">>
PATCH_TYPE_HEAP == <<"h", "e", "a", "p">>
PATCH_TYPE_AMS == <<"a", "m", "s">>
\* flags
BIG_ENDIAN_FLAG == <<"b", "e">>
LITTLE_ENDIAN_FLAG == <<"l", "e">>
NSOBID_FLAG == <<"n", "s", "o", "b", "i", "d">>
NROBID_FLAG == <<"n", "r", "o", "b", "i", "d">>
OFFSET_SHIFT_FLAG == <<"o", "f", "f", "s", "e", "t", "_", "s", "h", "i", "f", "t">>
DEBUG_INFO_FLAG == <<"d", "e", "b", "u", "g", "_", "i", "n", "f", "o">>
ALT_DEBUG_INFO_FLAG == <<"p", "r", "i", "n", "t", "_", "v", "a", "l", "u", "e", "s">>

(***************************************************************************)
(* The data model, as src/pchtxt.cpp uses it                               *)
(***************************************************************************)

\* enum PatchType: the value-initialized Patch{} has the first enumerator
BIN == "BIN"
HEAP == "HEAP"
AMS == "AMS"

\* enum TargetType
NSO == "NSO"
NRO == "NRO"

\* Patch{name, author, type, enabled, lineNum, contents}
Patch(name, author, type, enabled, lineNum, contents) ==
    [name |-> name, author |-> author, type |-> type, enabled |-> enabled,
     lineNum |-> lineNum, contents |-> contents]

\* Patch{}
EmptyPatch == Patch(<<>>, <<>>, BIN, FALSE, 0, <<>>)

\* PatchCollection{}
EmptyPatchCollection == [buildId |-> <<>>, targetType |-> NSO, patches |-> <<>>]

\* PatchTextMeta{}
EmptyPatchTextMeta == [title |-> <<>>, programId |-> <<>>, url |-> <<>>]

\* PatchContent{0, bytes of the line}
PatchContent(offset, value) == [offset |-> offset, value |-> value]

\* one line written to logOs: the source line number of its "L<n>: " prefix
\* (0 when the message has none), the message and the value streamed into it
LogLine(lineNum, text, arg) == [lineNum |-> lineNum, text |-> text, arg |-> arg]


\* str[i] of a std::string, i 0-based: str[str.size()] is the terminating
\* '\0', written Nul
Nul == "NUL"

CharAt(str, i) == IF i < Len(str) THEN str[i + 1] ELSE Nul

(***************************************************************************)
(* std::istream: its lines, the index of the next line to extract, failbit *)
(***************************************************************************)

\* std::getline(input, line) extracts a line iff the stream is good and a
\* line is left; otherwise it sets failbit
GetlineOk(stream) == ~stream.failbit /\ stream.pos <= Len(stream.lines)

GetlineLine(stream) == stream.lines[stream.pos]

\* a variant that extracts a line without moving on
GetlineStreamNoAdvance(stream) ==
    IF GetlineOk(stream) THEN stream ELSE [stream EXCEPT !.failbit = TRUE]

GetlineStream(stream) ==
    IF GetlineOk(stream)
    THEN [stream EXCEPT !.pos = @ + 1]
    ELSE [stream EXCEPT !.failbit = TRUE]

\* input.seekg(pos): clears eofbit, then seeks only if fail() is false
SeekgStream(stream, toPos) ==
    IF stream.failbit THEN stream ELSE [stream EXCEPT !.pos = toPos]

(***************************************************************************)
(* getPchtxtMeta: one iteration of its loop on an extracted line.  m holds *)
(* result, legacyTitle, curLineNum, the lines logged and whether the loop  *)
(* was left.                                                               *)
(***************************************************************************)

\* tagToValueMap: the field of result a tag names
TagToValueMap == {TITLE_TAG, PROGRAM_ID_TAG, URL_TAG}

MetaAssign(result, curTag, curTagValue) ==
    IF curTag = TITLE_TAG THEN [result EXCEPT !.title = curTagValue]
    ELSE IF curTag = PROGRAM_ID_TAG THEN [result EXCEPT !.programId = curTagValue]
    ELSE [result EXCEPT !.url = curTagValue]

\* strip quatation marks if necessary
StripQuotes(curTagValue) ==
    IF CharAt(curTagValue, 0) = "\"" /\ CharAt(curTagValue, Len(curTagValue) - 1) = "\""
    THEN Substr(curTagValue, 1, Len(curTagValue) - 2)
    ELSE curTagValue

MetaTagLine(m, line, lineLower) ==
    LET curTag == firstToken(lineLower)
    IN  IF curTag = STOP_PARSING_TAG
        THEN [m EXCEPT !.logOs = Append(@, LogLine(0, "done parsing meta (reached tag @stop)", <<>>)),
                       !.left = TRUE]
        ELSE IF curTag \in TagToValueMap
        THEN LET curTagValue == StripQuotes(ltrim(SubstrFrom(line, Len(curTag))))
             IN  [m EXCEPT !.result = MetaAssign(@, curTag, curTagValue),
                           !.logOs = Append(@, LogLine(m.curLineNum, "meta: ", <<curTag, curTagValue>>)),
                           !.curLineNum = @ + 1]
        ELSE [m EXCEPT !.curLineNum = @ + 1]

MetaEchoLine(m, line) ==
    [m EXCEPT !.logOs = Append(@, LogLine(m.curLineNum, "", line)),
              !.legacyTitle = ltrim(SubstrFrom(line, 1)),
              !.curLineNum = @ + 1]

MetaLine(m, rawLine) ==
    LET trimmed == trim(rawLine)
        line == getLineNoComment(trimmed)
        lineLower == getStringToLowerCase(line)
    IN  IF trimmed = <<>>
        THEN \* meta should stop at an empty line
             [m EXCEPT !.logOs = Append(@, LogLine(m.curLineNum, "done parsing meta", <<>>)),
                       !.left = TRUE]
        ELSE IF CharAt(line, 0) = "@" THEN MetaTagLine(m, line, lineLower)
        ELSE IF CharAt(line, 0) = "#" THEN MetaEchoLine(m, line)
        ELSE [m EXCEPT !.curLineNum = @ + 1]

\* getline failed
MetaEndOfFile(m) ==
    [m EXCEPT !.logOs = Append(@, LogLine(0, "meta parsing reached end of file", <<>>)),
              !.left = TRUE]

\* a variant that lets a legacy title override the tagged one
MetaResultPreferLegacy(result, legacyTitle) ==
    IF legacyTitle # <<>> THEN [result EXCEPT !.title = legacyTitle] ELSE result

\* after the loop: the legacy title stands in for an empty title
MetaResult(result, legacyTitle) ==
    IF result.title = <<>> THEN [result EXCEPT !.title = legacyTitle] ELSE result

MetaResultLog(result, legacyTitle) ==
    IF result.title = <<>>
    THEN <<LogLine(0, "using legacy style title", legacyTitle)>>
    ELSE <<>>


(***************************************************************************)
(* parsePchtxt: the handlers of one line.  p holds the parsing status      *)
(* (curLineNum, lastCommentLine, curPatch, curPatchCollection,             *)
(* curOffsetShift, curIsBigEndian, isAcceptingPatch, stopParsing,          *)
(* logDebugInfo), result.collections, the lines logged, and whether an     *)
(* exception left the function.                                            *)
(***************************************************************************)

\* logOs << "L" << curLineNum << ": " << text << arg << std::endl
Log(p, text, arg) == [p EXCEPT !.logOs = Append(@, LogLine(p.curLineNum, text, arg))]

LogIfDebug(p, text, arg) == IF p.logDebugInfo THEN Log(p, text, arg) ELSE p

\* curPatchCollection.patches.push_back(curPatch), with its log line
PushPatch(p) ==
    Log([p EXCEPT !.curPatchCollection.patches = Append(@, p.curPatch)],
        "patch read: ", p.curPatch.name)

\* std::stoi(str): optional sign, then decimal digits; std::invalid_argument
\* when no digit is there, std::out_of_range when the value is not an int
StoiBody(str) == IF CharAt(str, 0) \in {"+", "-"} THEN SubstrFrom(str, 1) ELSE str

\* the digits std::strtol converts, without their leading zeros
StoiRun(str) ==
    LET body == StoiBody(str)
        run == SubSeq(body, 1, FindIf(body, 1, {Digits[i] : i \in 1..Len(Digits)}, FALSE) - 1)
    IN  SubSeq(run, FindIf(run, 1, {"0"}, FALSE), Len(run))

\* the digits of INT_MAX, and of -INT_MIN
IntMaxDigits == <<"2", "1", "4", "7", "4", "8", "3", "6", "4", "7">>
IntMinDigits == <<"2", "1", "4", "7", "4", "8", "3", "6", "4", "8">>

\* run > limit, for two runs of digits without leading zeros
DigitsAbove(run, limit) ==
    \/ Len(run) > Len(limit)
    \/ /\ Len(run) = Len(limit)
       /\ \E i \in 1..Len(run) :
              /\ DigitValue(run[i]) > DigitValue(limit[i])
              /\ \A j \in 1..(i - 1) : run[j] = limit[j]

StoiOutOfRange(str) ==
    DigitsAbove(StoiRun(str), IF CharAt(str, 0) = "-" THEN IntMinDigits ELSE IntMaxDigits)

StoiThrows(str) == ~isdigit(CharAt(StoiBody(str), 0)) \/ StoiOutOfRange(str)

\* the value of a run of digits, with its sign
RECURSIVE StoiDigits(_, _, _, _)
StoiDigits(run, i, acc, sign) ==
    IF i > Len(run) THEN acc
    ELSE StoiDigits(run, i + 1, 10 * acc + sign * DigitValue(run[i]), sign)

Stoi(str) == StoiDigits(StoiRun(str), 1, 0, IF CharAt(str, 0) = "-" THEN 0 - 1 ELSE 1)

\* a variant that logs the tag and keeps parsing
TagStopLogOnly(p) == Log(p, "done parsing patches (reached tag @stop)", <<>>)

\* curTag == STOP_PARSING_TAG
TagStop(p) ==
    [Log(p, "done parsing patches (reached tag @stop)", <<>>) EXCEPT !.stopParsing = TRUE]

\* extract name and author from last comment
NameFromComment(lastCommentLine) ==
    rtrim(Substr(lastCommentLine, 0, Find(lastCommentLine, AUTHOR_IDENTIFIER_OPEN)))

AuthorFromComment(lastCommentLine) ==
    LET authorStartPos == Find(lastCommentLine, AUTHOR_IDENTIFIER_OPEN)
        authorEndPos == RFind(lastCommentLine, AUTHOR_IDENTIFIER_CLOSE)
    IN  IF authorStartPos # Npos
        THEN trim(Substr(lastCommentLine, authorStartPos + 1, authorEndPos - authorStartPos - 1))
        ELSE <<>>

\* check patch type
PatchTypeOf(type, lineNoCommentLower, curTag) ==
    LET patchType == firstToken(ltrim(SubstrFrom(lineNoCommentLower, Len(curTag))))
    IN  IF patchType = PATCH_TYPE_HEAP THEN HEAP
        ELSE IF patchType = PATCH_TYPE_AMS THEN AMS
        ELSE type

\* lines 177-217: store the patch in progress, start the new one
StartPatch(p, curTag, lineNoCommentLower) ==
    LET p1 == IF p.curPatch.contents # <<>>
              THEN [PushPatch(p) EXCEPT !.curPatch = EmptyPatch]
              ELSE p
        p2 == [p1 EXCEPT !.curPatch.enabled = (curTag = ENABLED_TAG)]
        p3 == IF p2.curPatch.type # AMS
              THEN [p2 EXCEPT !.curPatch.name = NameFromComment(p.lastCommentLine),
                              !.curPatch.author = AuthorFromComment(p.lastCommentLine)]
              ELSE p2
        p4 == [p3 EXCEPT !.curPatch.type = PatchTypeOf(@, lineNoCommentLower, curTag),
                         !.isAcceptingPatch = TRUE]
    IN  LogIfDebug(p4, "parsing patch: ", p4.curPatch.name)

\* a variant that starts the patch without looking at the build id
TagEnabledUnchecked(p, curTag, lineNoCommentLower) ==
    StartPatch(p, curTag, lineNoCommentLower)

\* curTag == ENABLED_TAG or curTag == DISABLED_TAG: start of a new patch
TagEnabled(p, curTag, lineNoCommentLower) ==
    IF p.curPatchCollection.buildId = <<>>
    THEN [Log(p, "ERROR: missing build id, abort parsing", curTag) EXCEPT !.stopParsing = TRUE]
    ELSE StartPatch(p, curTag, lineNoCommentLower)

\* a variant that re-labels the current collection and flushes nothing
FlagBuildIdRelabel(p, flagType, flagValue) ==
    [p EXCEPT !.curPatchCollection.buildId = flagValue,
              !.curPatchCollection.targetType = IF flagType = NROBID_FLAG THEN NRO ELSE NSO]

\* a variant that wraps up the patch but keeps the collection, under the new
\* build id
FlagBuildIdNoFlush(p, flagType, flagValue) ==
    LET p1 == IF p.curPatch.contents # <<>> THEN PushPatch(p) ELSE p
    IN  [p1 EXCEPT !.curPatch = EmptyPatch,
                   !.curPatchCollection.buildId = flagValue,
                   !.curPatchCollection.targetType = IF flagType = NROBID_FLAG THEN NRO ELSE NSO,
                   !.isAcceptingPatch = FALSE]

\* flagType == NSOBID_FLAG or flagType == NROBID_FLAG
FlagBuildId(p, flagType, flagValue) ==
    LET \* wrap up last bid collection
        p1 == IF p.curPatch.contents # <<>> THEN PushPatch(p) ELSE p
        p2 == [p1 EXCEPT !.curPatch = EmptyPatch]
        p3 == IF p2.curPatchCollection.patches # <<>>
              THEN [LogIfDebug([p2 EXCEPT !.collections = Append(@, p2.curPatchCollection)],
                               "parsing completed for ", p2.curPatchCollection.buildId)
                    EXCEPT !.curPatchCollection = EmptyPatchCollection]
              ELSE p2
        \* set up patch collection for new bid
        p4 == [p3 EXCEPT !.curPatchCollection.buildId = flagValue,
                         !.curPatchCollection.targetType =
                             IF flagType = NROBID_FLAG THEN NRO ELSE NSO,
                         !.isAcceptingPatch = FALSE]
    IN  LogIfDebug(p4, "parsing started for ", flagValue)

\* curTag == FLAG_TAG: parse flag
TagFlag(p, curTag, lineNoComment) ==
    LET flagContent == ltrim(SubstrFrom(lineNoComment, Len(curTag)))
        flagToken == ltrim(firstToken(flagContent))
        flagValue == ltrim(SubstrFrom(flagContent, Len(flagToken)))
        flagType == getStringToLowerCase(flagToken)
    IN  IF flagType = BIG_ENDIAN_FLAG THEN [p EXCEPT !.curIsBigEndian = TRUE]
        ELSE IF flagType = LITTLE_ENDIAN_FLAG THEN [p EXCEPT !.curIsBigEndian = FALSE]
        ELSE IF flagType \in {NSOBID_FLAG, NROBID_FLAG} THEN FlagBuildId(p, flagType, flagValue)
        ELSE IF flagType = OFFSET_SHIFT_FLAG
        THEN IF StoiThrows(flagValue)
             THEN [p EXCEPT !.thrown = TRUE]
             ELSE [p EXCEPT !.curOffsetShift = Stoi(flagValue)]
        ELSE IF flagType \in {DEBUG_INFO_FLAG, ALT_DEBUG_INFO_FLAG}
        THEN Log([p EXCEPT !.logDebugInfo = TRUE], "additional debug info enabled", <<>>)
        ELSE Log(p, "WARNING ignored unrecognized flag type: ", flagType)

\* the test of line 276, as C++ parses it: (not size()) > size(NSOBID_TAG) + 1,
\* a bool compared with 8
LegacyMissingValue(lineNoCommentLower) ==
    (IF Len(lineNoCommentLower) = 0 THEN 1 ELSE 0) > Len(NSOBID_TAG) + 1

\* a variant that wraps up the patch and the collection as a build-id flag does
TagLegacyNsobidFlush(p, lineNoComment, lineNoCommentLower) ==
    FlagBuildId(p, NSOBID_FLAG, ltrim(Substr(lineNoComment, Len(NSOBID_TAG), Npos)))

\* isStartsWith(lineNoCommentLower, NSOBID_TAG): legacy style nsobid
TagLegacyNsobid(p, lineNoComment, lineNoCommentLower) ==
    IF LegacyMissingValue(lineNoCommentLower)
    THEN [Log(p, "ERROR: legacy nsobid tag missing value", <<>>) EXCEPT !.stopParsing = TRUE]
    ELSE IF SubstrThrows(lineNoComment, Len(NSOBID_TAG) + 1)
    THEN [p EXCEPT !.thrown = TRUE]
    ELSE LET buildId == ltrim(SubstrFrom(lineNoComment, Len(NSOBID_TAG) + 1))
             p1 == [p EXCEPT !.curPatchCollection.targetType = NSO,
                             !.curPatchCollection.buildId = buildId]
         IN  LogIfDebug(p1, "parsing started for (legacy style bid) ", buildId)

\* a variant that halts on a tag it does not recognize
TagLineStrict(p, lineNoComment, lineNoCommentLower) ==
    LET curTag == firstToken(lineNoCommentLower)
    IN  IF curTag = STOP_PARSING_TAG THEN TagStop(p)
        ELSE IF curTag \in {ENABLED_TAG, DISABLED_TAG}
        THEN TagEnabled(p, curTag, lineNoCommentLower)
        ELSE IF curTag = FLAG_TAG THEN TagFlag(p, curTag, lineNoComment)
        ELSE IF isStartsWith(lineNoCommentLower, NSOBID_TAG)
        THEN TagLegacyNsobid(p, lineNoComment, lineNoCommentLower)
        ELSE IF curTag \notin META_TAGS
        THEN [Log(p, "WARNING ignored unrecognized tag: ", curTag) EXCEPT !.stopParsing = TRUE]
        ELSE p

\* case '@': tags
TagLine(p, lineNoComment, lineNoCommentLower) ==
    LET curTag == firstToken(lineNoCommentLower)
    IN  IF curTag = STOP_PARSING_TAG THEN TagStop(p)
        ELSE IF curTag \in {ENABLED_TAG, DISABLED_TAG}
        THEN TagEnabled(p, curTag, lineNoCommentLower)
        ELSE IF curTag = FLAG_TAG THEN TagFlag(p, curTag, lineNoComment)
        ELSE IF isStartsWith(lineNoCommentLower, NSOBID_TAG)
        THEN TagLegacyNsobid(p, lineNoComment, lineNoCommentLower)
        ELSE IF curTag \notin META_TAGS
        THEN Log(p, "WARNING ignored unrecognized tag: ", curTag)
        ELSE p

\* case '#': echo identifier
EchoLine(p, line) == Log(p, "", line)

\* case AMS_CHEAT_IDENTIFIER_OPEN[0]: AMS cheat
AmsCheatLine(p, lineNoComment) ==
    IF p.curPatchCollection.buildId = <<>>
    THEN [Log(p, "ERROR: missing build id, abort parsing", <<>>) EXCEPT !.stopParsing = TRUE]
    ELSE LET p1 == IF p.curPatch.contents # <<>> THEN PushPatch(p) ELSE p
             amsCheatName ==
                 trim(Substr(lineNoComment, 1, RFind(lineNoComment, AMS_CHEAT_IDENTIFIER_CLOSE) - 1))
             \* start new patch
             p2 == [p1 EXCEPT !.curPatch = Patch(amsCheatName, <<>>, AMS, TRUE, p.curLineNum, <<>>)]
         IN  LogIfDebug(p2, "parsing AMS cheat: ", amsCheatName)

\* case '/': comment identifier
CommentLine(p, line) == [p EXCEPT !.lastCommentLine = getLineCommentContent(line)]

\* a variant that adds the line as plain text whatever the type of the patch
DefaultLineAnyType(p, line, lineNoComment, lineNoCommentLower) ==
    IF ~p.isAcceptingPatch \/ line = <<>> THEN p
    ELSE [p EXCEPT !.curPatch.contents = Append(@, PatchContent(0, lineNoComment))]

\* a variant that stores the offset shift in the content entry
DefaultLineShifted(p, line, lineNoComment, lineNoCommentLower) ==
    IF ~p.isAcceptingPatch \/ line = <<>> \/ p.curPatch.type # AMS THEN p
    ELSE [p EXCEPT !.curPatch.contents = Append(@, PatchContent(p.curOffsetShift, lineNoComment))]

\* default: patch contents
DefaultLine(p, line, lineNoComment, lineNoCommentLower) ==
    IF ~p.isAcceptingPatch THEN p
    ELSE IF line = <<>> THEN p   \* skip empty lines
    ELSE IF p.curPatch.type = AMS
    THEN \* for AMS cheats, just add line as plain text
         [p EXCEPT !.curPatch.contents = Append(@, PatchContent(0, lineNoComment))]
    ELSE IF firstToken(lineNoCommentLower) = <<>>
    THEN LogIfDebug(p, "line ignored: invalid offset: ", line)
    ELSE p

\* the body of the loop for an extracted line: trim, switch (line[0]),
\* curLineNum++ (an exception leaves before the increment)
ParseLine(p, rawLine) ==
    LET line == trim(rawLine)
        lineNoComment == getLineNoComment(line)
        lineNoCommentLower == getStringToLowerCase(lineNoComment)
        ch == CharAt(line, 0)
        q == IF ch = "@" THEN TagLine(p, lineNoComment, lineNoCommentLower)
             ELSE IF ch = ECHO_IDENTIFIER THEN EchoLine(p, line)
             ELSE IF ch = AMS_CHEAT_IDENTIFIER_OPEN THEN AmsCheatLine(p, lineNoComment)
             ELSE IF ch = COMMENT_IDENTIFIER THEN CommentLine(p, line)
             ELSE DefaultLine(p, line, lineNoComment, lineNoCommentLower)
    IN  IF q.thrown THEN q ELSE [q EXCEPT !.curLineNum = @ + 1]

\* getline failed
ParseEndOfFile(p) ==
    [p EXCEPT !.logOs = Append(@, LogLine(0, "done parsing patches", <<>>))]

\* a variant that appends the patch and the collection whatever they hold
FinishUnchecked(p) ==
    LET p1 == PushPatch(p)
    IN  LogIfDebug([p1 EXCEPT !.collections = Append(@, p1.curPatchCollection)],
                   "parsing completed for ", p1.curPatchCollection.buildId)

\* a variant that appends the collection before the patch in progress
FinishCollectionFirst(p) ==
    LET p1 == IF p.curPatchCollection.patches # <<>>
              THEN LogIfDebug([p EXCEPT !.collections = Append(@, p.curPatchCollection)],
                              "parsing completed for ", p.curPatchCollection.buildId)
              ELSE p
    IN  IF p1.curPatch.contents # <<>> THEN PushPatch(p1) ELSE p1

\* add last patch and collection
Finish(p) ==
    LET p1 == IF p.curPatch.contents # <<>> THEN PushPatch(p) ELSE p
    IN  IF p1.curPatchCollection.patches # <<>>
        THEN LogIfDebug([p1 EXCEPT !.collections = Append(@, p1.curPatchCollection)],
                        "parsing completed for ", p1.curPatchCollection.buildId)
        ELSE p1


(***************************************************************************)
(* parsePchtxt as a function of the stream's lines: the meta loop, the     *)
(* seekg, the parse loop and the finalization, run to the end.  The value  *)
(* is [thrown, meta, collections].                                         *)
(***************************************************************************)

RECURSIVE MetaLoop(_, _)
MetaLoop(stream, m) ==
    IF m.left THEN [stream |-> stream, m |-> m]
    ELSE MetaLoop(GetlineStream(stream),
                  IF GetlineOk(stream) THEN MetaLine(m, GetlineLine(stream))
                  ELSE MetaEndOfFile(m))

RECURSIVE ParseLoop(_, _)
ParseLoop(stream, p) ==
    IF p.thrown \/ p.stopParsing THEN p
    ELSE IF GetlineOk(stream)
    THEN ParseLoop(GetlineStream(stream), ParseLine(p, GetlineLine(stream)))
    ELSE ParseEndOfFile(p)

ParsePchtxt(lines) ==
    LET stream0 == [lines |-> lines, pos |-> 1, failbit |-> FALSE]
        meta == MetaLoop(stream0,
                         [result |-> EmptyPatchTextMeta, legacyTitle |-> <<>>, curLineNum |-> 1,
                          logOs |-> <<>>, left |-> FALSE])
        p0 == [curLineNum |-> 1, lastCommentLine |-> <<>>, curPatch |-> EmptyPatch,
               curPatchCollection |-> EmptyPatchCollection, curOffsetShift |-> 0,
               curIsBigEndian |-> FALSE, isAcceptingPatch |-> FALSE, stopParsing |-> FALSE,
               logDebugInfo |-> FALSE, collections |-> <<>>, logOs |-> <<>>, thrown |-> FALSE]
        p == ParseLoop(SeekgStream(meta.stream, stream0.pos), p0)
    IN  IF p.thrown
        THEN [thrown |-> TRUE, meta |-> EmptyPatchTextMeta, collections |-> <<>>]
        ELSE [thrown |-> FALSE,
              meta |-> MetaResult(meta.m.result, meta.m.legacyTitle),
              collections |-> Finish(p).collections]

(***************************************************************************)
(* The state of one call parsePchtxt(input, logOs)                         *)
(***************************************************************************)

VARIABLES
    input,              \* the std::istream: [lines, pos, failbit]
    logOs,              \* the lines written to the log stream
    pc,                 \* where the call is
    result,             \* parsePchtxt's result: [meta, collections]
    curPos,             \* parsePchtxt: the position tellg() returned
    metaResult,         \* getPchtxtMeta: result
    legacyTitle,        \* getPchtxtMeta: legacyTitle
    metaLineNum,        \* getPchtxtMeta: curLineNum
    curLineNum, lastCommentLine, curPatch, curPatchCollection, curOffsetShift,
    curIsBigEndian, isAcceptingPatch, stopParsing, logDebugInfo
                        \* parsePchtxt: the parsing status

metaVars == <<metaResult, legacyTitle, metaLineNum>>

parseVars == <<curLineNum, lastCommentLine, curPatch, curPatchCollection, curOffsetShift,
               curIsBigEndian, isAcceptingPatch, stopParsing, logDebugInfo>>

vars == <<input, logOs, pc, result, curPos, metaResult, legacyTitle, metaLineNum,
          curLineNum, lastCommentLine, curPatch, curPatchCollection, curOffsetShift,
          curIsBigEndian, isAcceptingPatch, stopParsing, logDebugInfo>>

\* the sequences over S of length at most n
RECURSIVE SeqsUpTo(_, _)
SeqsUpTo(S, n) ==
    IF n = 0 THEN {<<>>}
    ELSE LET shorter == SeqsUpTo(S, n - 1)
         IN  shorter \cup {Append(t, x) : t \in {u \in shorter : Len(u) = n - 1}, x \in S}

\* the call begins on a good stream at its first line, holding any of `texts`
InitOver(texts) ==
    /\ input \in {[lines |-> t, pos |-> 1, failbit |-> FALSE] : t \in texts}
    /\ logOs = <<>>
    /\ pc = "tellg"
    /\ result = [meta |-> EmptyPatchTextMeta, collections |-> <<>>]
    /\ curPos = 0
    /\ metaResult = EmptyPatchTextMeta
    /\ legacyTitle = <<>>
    /\ metaLineNum = 1
    /\ curLineNum = 1
    /\ lastCommentLine = <<>>
    /\ curPatch = EmptyPatch
    /\ curPatchCollection = EmptyPatchCollection
    /\ curOffsetShift = 0
    /\ curIsBigEndian = FALSE
    /\ isAcceptingPatch = FALSE
    /\ stopParsing = FALSE
    /\ logDebugInfo = FALSE

\* getPchtxtMeta's locals as the record its handlers take
MetaLocals ==
    [result |-> metaResult, legacyTitle |-> legacyTitle, curLineNum |-> metaLineNum,
     logOs |-> logOs, left |-> FALSE]

\* parsePchtxt's locals as the record its handlers take
ParseLocals ==
    [curLineNum |-> curLineNum, lastCommentLine |-> lastCommentLine, curPatch |-> curPatch,
     curPatchCollection |-> curPatchCollection, curOffsetShift |-> curOffsetShift,
     curIsBigEndian |-> curIsBigEndian, isAcceptingPatch |-> isAcceptingPatch,
     stopParsing |-> stopParsing, logDebugInfo |-> logDebugInfo,
     collections |-> result.collections, logOs |-> logOs, thrown |-> FALSE]

SetParseLocals(q) ==
    /\ curLineNum' = q.curLineNum
    /\ lastCommentLine' = q.lastCommentLine
    /\ curPatch' = q.curPatch
    /\ curPatchCollection' = q.curPatchCollection
    /\ curOffsetShift' = q.curOffsetShift
    /\ curIsBigEndian' = q.curIsBigEndian
    /\ isAcceptingPatch' = q.isAcceptingPatch
    /\ stopParsing' = q.stopParsing
    /\ logDebugInfo' = q.logDebugInfo
    /\ result' = [result EXCEPT !.collections = q.collections]
    /\ logOs' = q.logOs

\* auto curPos = input.tellg()
Tellg ==
    /\ pc = "tellg"
    /\ curPos' = input.pos
    /\ pc' = "meta"
    /\ UNCHANGED <<input, logOs, result, metaVars, parseVars>>

\* one iteration of getPchtxtMeta's loop
MetaIteration ==
    /\ pc = "meta"
    /\ \E m \in {IF GetlineOk(input)
                  THEN MetaLine(MetaLocals, GetlineLine(input))
                  ELSE MetaEndOfFile(MetaLocals)} :
           /\ metaResult' = m.result
           /\ legacyTitle' = m.legacyTitle
           /\ metaLineNum' = m.curLineNum
           /\ logOs' = m.logOs
           /\ pc' = IF m.left THEN "metaReturn" ELSE "meta"
    /\ input' = GetlineStream(input)
    /\ UNCHANGED <<result, curPos, parseVars>>

\* getPchtxtMeta returns: result.meta = getPchtxtMeta(input, logOs)
MetaReturn ==
    /\ pc = "metaReturn"
    /\ result' = [result EXCEPT !.meta = MetaResult(metaResult, legacyTitle)]
    /\ logOs' = logOs \o MetaResultLog(metaResult, legacyTitle)
    /\ pc' = "seekg"
    /\ UNCHANGED <<input, curPos, metaVars, parseVars>>

\* input.seekg(curPos)
Seekg ==
    /\ pc = "seekg"
    /\ input' = SeekgStream(input, curPos)
    /\ pc' = "parse"
    /\ UNCHANGED <<logOs, result, curPos, metaVars, parseVars>>

\* one iteration of parsePchtxt's loop
ParseIteration ==
    /\ pc = "parse"
    /\ IF stopParsing
       THEN /\ pc' = "finish"
            /\ UNCHANGED <<input, logOs, result, parseVars>>
       ELSE /\ input' = GetlineStream(input)
            /\ IF GetlineOk(input)
               THEN \E q \in {ParseLine(ParseLocals, GetlineLine(input))} :
                        /\ SetParseLocals(q)
                        /\ pc' = IF q.thrown THEN "thrown" ELSE "parse"
               ELSE \E q \in {ParseEndOfFile(ParseLocals)} :
                        /\ SetParseLocals(q)
                        /\ pc' = "finish"
    /\ UNCHANGED <<curPos, metaVars>>

\* add last patch and collection; return result
ParseFinish ==
    /\ pc = "finish"
    /\ \E q \in {Finish(ParseLocals)} : SetParseLocals(q)
    /\ pc' = "done"
    /\ UNCHANGED <<input, curPos, metaVars>>

Next ==
    \/ Tellg
    \/ MetaIteration
    \/ MetaReturn
    \/ Seekg
    \/ ParseIteration
    \/ ParseFinish

(***************************************************************************)
(* The inputs                                                              *)
(***************************************************************************)

SP == <<" ">>

BuildIdA == <<"A", "1">>

LineBlank == <<>>
LineFlagNsobid == FLAG_TAG \o SP \o NSOBID_FLAG \o SP \o BuildIdA
LineEnabledAms == ENABLED_TAG \o SP \o PATCH_TYPE_AMS
LineCheatHeader == <<"[", "N", "]">>
LineBody == <<"0", "4">>
LineStop == STOP_PARSING_TAG
LineLegacyNoValue == NSOBID_TAG
LineLegacyColon == NSOBID_TAG \o <<":">>

MaxLines == 4

Lines ==
    {LineBlank, LineFlagNsobid, LineEnabledAms, LineCheatHeader, LineBody, LineStop,
     LineLegacyNoValue, LineLegacyColon}

Init == InitOver(SeqsUpTo(Lines, MaxLines))

Spec == Init /\ [][Next]_vars


\* the inputs that reach a legacy tag line after a patch has contents
LegacyMaxLines == 5

LegacyLines == {LineBlank, LineFlagNsobid, LineEnabledAms, LineBody, LineLegacyColon}

InitLegacy == InitOver(SeqsUpTo(LegacyLines, LegacyMaxLines))

SpecLegacy == InitLegacy /\ [][Next]_vars

\* the inputs long enough for two collections: a build-id flag, then flag,
\* tag, body and @stop lines
TwoMaxLines == 6

TwoLines == {LineFlagNsobid, LineEnabledAms, LineBody, LineStop}

InitTwo == InitOver({<<LineFlagNsobid>> \o t : t \in SeqsUpTo(TwoLines, TwoMaxLines)})

SpecTwo == InitTwo /\ [][Next]_vars

\* the inputs of the meta pass: titles, an echo line, and the two ways out
LineTitleT == TITLE_TAG \o SP \o <<"T">>
LineTitleQuotedU == <<"@", "T", "I", "T", "L", "E">> \o SP \o <<"\"", "U", "\"">>
LineTitleNoValue == TITLE_TAG
LineEchoL == <<"#", " ", "L">>

MetaMaxLines == 3

MetaLines == {LineBlank, LineStop, LineTitleT, LineTitleQuotedU, LineTitleNoValue, LineEchoL}

InitMeta == InitOver(SeqsUpTo(MetaLines, MetaMaxLines))

SpecMeta == InitMeta /\ [][Next]_vars

(***************************************************************************)
(* What the claims speak of                                                *)
(***************************************************************************)

\* the call has returned its Document
Returned == pc = "done"

\* the first token of a line as the tag dispatch sees it
TagOf(rawLine) == firstToken(getStringToLowerCase(getLineNoComment(trim(rawLine))))

IsTagLine(rawLine) == CharAt(trim(rawLine), 0) = "@"

IsStopLine(rawLine) == IsTagLine(rawLine) /\ TagOf(rawLine) = STOP_PARSING_TAG

IsEnabledLine(rawLine) == IsTagLine(rawLine) /\ TagOf(rawLine) \in {ENABLED_TAG, DISABLED_TAG}

IsCheatHeaderLine(rawLine) == CharAt(trim(rawLine), 0) = "["

IsFlagLine(rawLine) == IsTagLine(rawLine) /\ TagOf(rawLine) = FLAG_TAG

IsLegacyLine(rawLine) ==
    /\ IsTagLine(rawLine)
    /\ ~IsStopLine(rawLine) /\ ~IsEnabledLine(rawLine) /\ ~IsFlagLine(rawLine)
    /\ isStartsWith(getStringToLowerCase(getLineNoComment(trim(rawLine))), NSOBID_TAG)

\* the loop of parsePchtxt is about to extract this line
Reading == pc = "parse" /\ ~stopParsing /\ GetlineOk(input)

\* C1: every collection of the Document has at least one patch and every
\* patch in it has at least one content entry
C1_NoEmptyCollectionOrPatch ==
    \A i \in 1..Len(result.collections) :
        /\ result.collections[i].patches # <<>>
        /\ \A j \in 1..Len(result.collections[i].patches) :
               result.collections[i].patches[j].contents # <<>>

C1_Witness == Returned /\ result.collections # <<>>

\* C2 (as claimed): every collection of the returned Document has a
\* non-empty buildId
C2_BuildIdNonEmpty ==
    Returned => \A i \in 1..Len(result.collections) : result.collections[i].buildId # <<>>

\* C3 (as claimed): after a build-id flag, a cheat-script header and one body
\* line (the block closed by a blank line or @stop) yield one CheatScript
\* patch named by the header, enabled, without author, holding that line
C3_CheatBlockParsed ==
    (/\ Returned
     /\ Len(input.lines) = 4
     /\ SubSeq(input.lines, 1, 3) = <<LineFlagNsobid, LineCheatHeader, LineBody>>
     /\ input.lines[4] \in {LineBlank, LineStop})
    => result.collections =
           <<[buildId |-> BuildIdA, targetType |-> NSO,
              patches |-> <<Patch(<<"N">>, <<>>, AMS, TRUE, 2, <<PatchContent(0, LineBody)>>)>>]>>


\* a line that starts a patch: an @enabled or @disabled tag or a cheat header
IsPatchStartLine(rawLine) == IsEnabledLine(rawLine) \/ IsCheatHeaderLine(rawLine)

\* an @flag line whose flag name is nsobid or nrobid
IsBuildIdFlagLine(rawLine) ==
    /\ IsFlagLine(rawLine)
    /\ LET lineNoComment == getLineNoComment(trim(rawLine))
           flagContent == ltrim(SubstrFrom(lineNoComment, Len(FLAG_TAG)))
       IN  getStringToLowerCase(firstToken(flagContent)) \in {NSOBID_FLAG, NROBID_FLAG}

\* logOs' is logOs and one more line, of the given text
LogsOne(text) ==
    /\ Len(logOs') = Len(logOs) + 1
    /\ SubSeq(logOs', 1, Len(logOs)) = logOs
    /\ logOs'[Len(logOs')].text = text

\* a patch-start line stands in the input with no build-id line before it
PatchStartBeforeBuildId ==
    \E k \in 1..Len(input.lines) :
        /\ IsPatchStartLine(input.lines[k])
        /\ \A j \in 1..(k - 1) :
               ~IsBuildIdFlagLine(input.lines[j]) /\ ~IsLegacyLine(input.lines[j])

C4_HaltsOnMissingBuildId ==
    Reading /\ IsPatchStartLine(GetlineLine(input)) /\ curPatchCollection.buildId = <<>>
    => /\ stopParsing'
       /\ LogsOne("ERROR: missing build id, abort parsing")

C4_NoLineAfterHalt == stopParsing => input' = input /\ curLineNum' = curLineNum

C4_NoCollections == Returned /\ PatchStartBeforeBuildId => result.collections = <<>>

\* C4: a patch-start line read while buildId is empty logs one error and
\* sets the stop flag, after which no line is extracted; when no build-id
\* line came before it, the returned Document has no collections
C4_MissingBuildIdHalts ==
    /\ []C4_NoCollections
    /\ [][C4_HaltsOnMissingBuildId /\ C4_NoLineAfterHalt]_vars

C4_Witness ==
    /\ Returned
    /\ stopParsing
    /\ logOs[Len(logOs)].text = "ERROR: missing build id, abort parsing"
    /\ curLineNum <= Len(input.lines)
    /\ input.pos = curLineNum

\* a legacy tag line that is the tag alone
IsLegacyNoValueLine(rawLine) ==
    IsLegacyLine(rawLine) /\ Len(getLineNoComment(trim(rawLine))) = Len(NSOBID_TAG)

\* C5 (as claimed): a legacy @nsobid line without a value logs one
\* diagnostic and sets the stop flag, and the loop goes on to finalization
C5_LegacyMissingValueHalts ==
    [][Reading /\ IsLegacyNoValueLine(GetlineLine(input))
       => /\ stopParsing'
          /\ pc' = "parse"
          /\ LogsOne("ERROR: legacy nsobid tag missing value")]_vars

\* C6 (as claimed): unless a line halted it, the main pass has processed
\* every line from the position where the call began
C6_MainPassReadsEveryLine ==
    Returned /\ ~stopParsing => curLineNum - 1 = Len(input.lines) - (curPos - 1)


\* what finalization appends to the current collection
FinalPatches ==
    IF curPatch.contents # <<>>
    THEN Append(curPatchCollection.patches, curPatch)
    ELSE curPatchCollection.patches

C7_LoopEndsInFinalization ==
    /\ (pc = "parse" /\ (stopParsing \/ ~GetlineOk(input)) => pc' = "finish")
    /\ (pc' = "finish" => pc = "parse")
    /\ (pc = "done" => vars' = vars)

C7_FinalizationEffect ==
    pc = "finish"
    => /\ pc' = "done"
       /\ curPatchCollection' = [curPatchCollection EXCEPT !.patches = FinalPatches]
       /\ result' = [result EXCEPT !.collections =
                        IF FinalPatches # <<>>
                        THEN Append(@, [curPatchCollection EXCEPT !.patches = FinalPatches])
                        ELSE @]

C8_OneLinePerIteration ==
    /\ (pc = "meta" => pc' # "meta" \/ input'.pos = input.pos + 1)
    /\ (pc = "parse" => pc' # "parse" \/ input'.pos = input.pos + 1)
    /\ input'.pos <= Len(input.lines) + 1

\* the call has ended: it returned or an exception left it
Ended == pc \in {"done", "thrown"}

\* the lines not yet extracted
LinesLeft == Len(input.lines) + 1 - input.pos

\* a bound on the steps the call can still take
StepsLeft ==
    CASE pc = "tellg" -> 2 * Len(input.lines) + 8
      [] pc = "meta" -> LinesLeft + Len(input.lines) + 7
      [] pc = "metaReturn" -> Len(input.lines) + 6
      [] pc = "seekg" -> Len(input.lines) + 5
      [] pc = "parse" -> LinesLeft + 3
      [] pc = "finish" -> 1
      [] OTHER -> 0

\* the call takes a step from here: the action of its place can fire (each
\* action is guarded by its place alone and defined on every stream)
CanStep == pc \in {"tellg", "meta", "metaReturn", "seekg", "parse", "finish"}

\* C8: each iteration of the meta loop and of the parse loop extracts one
\* line or leaves its loop, every step lowers a bound on the steps left,
\* and the call can step until it has ended: it terminates
C8_Terminates ==
    /\ [](StepsLeft >= 0 /\ (Ended \/ CanStep))
    /\ [][C8_OneLinePerIteration /\ StepsLeft' < StepsLeft]_vars

C8_Witness == Returned /\ ~stopParsing /\ curLineNum = MaxLines + 1

\* the input up to and including its first @stop line
UpToStop(lines) ==
    LET K == {k \in 1..Len(lines) : IsStopLine(lines[k])}
    IN  IF K = {} THEN lines ELSE SubSeq(lines, 1, CHOOSE k \in K : \A j \in K : k <= j)

\* what the call gave back
Outcome ==
    IF pc = "thrown"
    THEN [thrown |-> TRUE, meta |-> EmptyPatchTextMeta, collections |-> <<>>]
    ELSE [thrown |-> FALSE, meta |-> result.meta, collections |-> result.collections]

\* the loop was left because an @stop line was read
StoppedByTag ==
    /\ stopParsing
    /\ \E i \in 1..Len(logOs) : logOs[i].text = "done parsing patches (reached tag @stop)"

C9_SameAsTruncated ==
    pc \in {"done", "thrown"} => Outcome = ParsePchtxt(UpToStop(input.lines))

C9_PatchInProgressKept ==
    Returned /\ StoppedByTag /\ curPatch.contents # <<>>
    => /\ result.collections # <<>>
       /\ LET last == result.collections[Len(result.collections)]
          IN  last.patches[Len(last.patches)] = curPatch

C9_StateFrozen ==
    stopParsing
    => /\ input' = input
       /\ UNCHANGED <<lastCommentLine, curPatch, curOffsetShift, curIsBigEndian,
                      isAcceptingPatch, stopParsing, logDebugInfo>>
       /\ result'.meta = result.meta

\* C9: once @stop is read no later line is extracted or changes the parsing
\* status; the outcome is that of the input cut after the @stop line, and a
\* patch with contents in progress at @stop is in the returned Document
C9_StopEndsParsing ==
    /\ []C9_SameAsTruncated
    /\ []C9_PatchInProgressKept
    /\ [][C9_StateFrozen]_vars

C9_Witness ==
    /\ Returned
    /\ StoppedByTag
    /\ curPatch.contents # <<>>
    /\ curLineNum <= Len(input.lines)

\* the lines the meta pass reads before the line that ends it
MetaBlockLen(lines) ==
    LET K == {k \in 1..Len(lines) : trim(lines[k]) = <<>> \/ IsStopLine(lines[k])}
    IN  IF K = {} THEN Len(lines) ELSE (CHOOSE k \in K : \A j \in K : k <= j) - 1

IsTitleLine(rawLine) == IsTagLine(rawLine) /\ TagOf(rawLine) = TITLE_TAG

\* the value of an @title line: the text after the tag, one pair of quotes off
TitleValue(rawLine) ==
    LET rest == ltrim(SubstrFrom(getLineNoComment(trim(rawLine)), Len(TITLE_TAG)))
    IN  IF Len(rest) >= 2 /\ rest[1] = "\"" /\ rest[Len(rest)] = "\""
        THEN SubSeq(rest, 2, Len(rest) - 1)
        ELSE IF rest = <<"\"">> THEN <<>> ELSE rest

IsEchoLine(rawLine) == CharAt(getLineNoComment(trim(rawLine)), 0) = "#"

EchoText(rawLine) == ltrim(SubstrFrom(getLineNoComment(trim(rawLine)), 1))

\* the greatest member of a set of line numbers, 0 if it is empty
LastOf(K) == IF K = {} THEN 0 ELSE CHOOSE k \in K : \A j \in K : j <= k

\* the last @title line and the last echo line of the meta block, 0 if none
LastTitleLine == LastOf({k \in 1..MetaBlockLen(input.lines) : IsTitleLine(input.lines[k])})

LastEchoLine == LastOf({k \in 1..MetaBlockLen(input.lines) : IsEchoLine(input.lines[k])})

ExplicitTitle == TitleValue(input.lines[LastTitleLine])

LegacyTitle == IF LastEchoLine = 0 THEN <<>> ELSE EchoText(input.lines[LastEchoLine])

MetaPassOver == pc \in {"seekg", "parse", "finish", "done", "thrown"}

\* C10 (as claimed): the title is the value of the last @title of the meta
\* block when there is one, and the legacy title only when there is none
C10_ExplicitTitleWins ==
    MetaPassOver
    => result.meta.title =
           IF LastTitleLine # 0 THEN ExplicitTitle ELSE LegacyTitle

\* C10 (amended): the title is the value of the last @title of the meta
\* block when there is one and its value is not empty, and the legacy title
\* otherwise
C10_NonEmptyExplicitTitleWins ==
    MetaPassOver
    => result.meta.title =
           IF LastTitleLine # 0 /\ ExplicitTitle # <<>>
           THEN ExplicitTitle
           ELSE LegacyTitle

C10_Witness ==
    /\ Returned
    /\ LastTitleLine > LastEchoLine
    /\ LastEchoLine > 0
    /\ ExplicitTitle # <<>>
    /\ result.meta.title = ExplicitTitle
    /\ result.meta.title # LegacyTitle

(***************************************************************************)
(* Comment-boundary detection                                              *)
(***************************************************************************)

\* one-line inputs over a slash, a quote and a letter, bare and as the value
\* of an @title tag
CommentChars == {"/", "\"", "a"}

CommentMaxLen == 5

CommentTexts == SeqsUpTo(CommentChars, CommentMaxLen)

TitleLineOf(value) == TITLE_TAG \o SP \o value

InitComment ==
    InitOver({<<s>> : s \in CommentTexts} \cup {<<TitleLineOf(s)>> : s \in CommentTexts})

SpecComment == InitComment /\ [][Next]_vars

\* the double quotes that stand before position i of s
QuotesBefore(s, i) == Cardinality({j \in 1..(i - 1) : s[j] = "\""})

\* the positions of the slashes of s outside every quoted region
UnquotedSlashes(s) == {i \in 1..Len(s) : s[i] = "/" /\ QuotesBefore(s, i) % 2 = 0}

\* the 0-based index of the first unquoted slash, or the length of s
FirstUnquotedSlash(s) ==
    IF UnquotedSlashes(s) = {} THEN Len(s)
    ELSE (CHOOSE i \in UnquotedSlashes(s) : \A j \in UnquotedSlashes(s) : i <= j) - 1

\* the texts without a double quote
QuoteFree == {x \in CommentTexts : \A i \in 1..Len(x) : x[i] # "\""}

Quoted(x) == <<"\"">> \o x \o <<"\"">>

\* C11: commentPos of every line is the index of its first slash outside a
\* quoted region, or its length when there is none; an @title line whose
\* value is one quoted text, slashes in it or not, gives that text as title
C11_CommentPosSkipsQuoted ==
    /\ \A k \in 1..Len(input.lines) :
           commentPos(trim(input.lines[k])) = FirstUnquotedSlash(trim(input.lines[k]))
    /\ MetaPassOver
       => \A x \in QuoteFree :
              input.lines[1] = TitleLineOf(Quoted(x)) => result.meta.title = x

C11_Witness ==
    /\ Returned
    /\ input.lines[1] = TitleLineOf(Quoted(<<"a", "/", "a">>))
    /\ commentPos(input.lines[1]) = Len(input.lines[1])
    /\ result.meta.title = <<"a", "/", "a">>

(***************************************************************************)
(* Case-insensitivity of tags, flag names and patch-type tokens            *)
(***************************************************************************)

\* lines whose keywords are written in upper or mixed case and whose values
\* (build ids, title, body) hold letters of both cases
BuildIdAb == <<"A", "b">>
BuildIdCd == <<"C", "d">>
TitleTt == <<"T", "t">>

LineFlagMixed == <<"@", "F", "L", "A", "G">> \o SP \o <<"N", "s", "o", "B", "i", "d">> \o SP \o BuildIdAb
LineDisabledMixed == <<"@", "D", "i", "s", "a", "b", "l", "e", "d">> \o SP \o <<"A", "M", "S">>
LineBodyMixed == <<"0", "A", "b">>
LineTitleMixed == <<"@", "T", "I", "T", "L", "E">> \o SP \o TitleTt
LineLegacyMixed == <<"@", "N", "S", "O", "b", "i", "d">> \o SP \o BuildIdCd
LineStopMixed == <<"@", "S", "t", "o", "p">>
LineFlagDebugMixed == <<"@", "f", "l", "a", "G">> \o SP \o <<"D", "E", "B", "U", "G", "_", "i", "n", "f", "o">>

CaseMaxLines == 4

CaseLines ==
    {LineBlank, LineFlagMixed, LineDisabledMixed, LineBodyMixed, LineTitleMixed,
     LineLegacyMixed, LineStopMixed, LineFlagDebugMixed}

InitCase == InitOver(SeqsUpTo(CaseLines, CaseMaxLines))

SpecCase == InitCase /\ [][Next]_vars

\* the end of the n-th blank-separated word of a line (the line's length if
\* it has fewer words)
RECURSIVE WordEnd(_, _, _)
WordEnd(line, from, n) ==
    LET start == FindIf(line, from, Whitespace, FALSE)
        stop == FindIf(line, start, Whitespace, TRUE) - 1
    IN  IF start > Len(line) THEN Len(line)
        ELSE IF n = 1 THEN stop
        ELSE WordEnd(line, stop + 1, n - 1)

LowerUpTo(line, n) == [i \in 1..Len(line) |-> IF i <= n THEN tolower(line[i]) ELSE line[i]]

\* a tag line with its keywords in lower case: the tag, and after @flag the
\* flag name, after @enabled or @disabled the patch-type token; the rest of
\* the line as it stands
LowerKeywords(rawLine) ==
    IF ~IsTagLine(rawLine) THEN rawLine
    ELSE IF TagOf(rawLine) \in {FLAG_TAG, ENABLED_TAG, DISABLED_TAG}
    THEN LowerUpTo(rawLine, WordEnd(rawLine, 1, 2))
    ELSE LowerUpTo(rawLine, WordEnd(rawLine, 1, 1))

LowerKeywordsOfAll(lines) == [k \in 1..Len(lines) |-> LowerKeywords(lines[k])]

C12_SameAsLowerCase ==
    Ended => Outcome = ParsePchtxt(LowerKeywordsOfAll(input.lines))

C12_ValuesKeepCase ==
    Returned
    => /\ result.meta.title \in {<<>>, TitleTt}
       /\ \A i \in 1..Len(result.collections) :
              /\ result.collections[i].buildId \in {BuildIdAb, BuildIdCd}
              /\ \A j \in 1..Len(result.collections[i].patches) :
                     \A k \in 1..Len(result.collections[i].patches[j].contents) :
                         result.collections[i].patches[j].contents[k].value = LineBodyMixed

\* C12: the Meta and Document returned for lines whose tags, flag names and
\* patch-type tokens are in upper or mixed case are those returned for the
\* same lines with these keywords in lower case, and the values in them
\* (title, build ids, content lines) keep the case they have in the input
C12_KeywordCaseIgnored == C12_SameAsLowerCase /\ C12_ValuesKeepCase

C12_Witness ==
    /\ Returned
    /\ result.collections # <<>>
    /\ result.collections[1].buildId = BuildIdAb
    /\ ~result.collections[1].patches[1].enabled
    /\ result.collections[1].patches[1].type = AMS
    /\ \E k \in 1..Len(input.lines) : input.lines[k] # LowerKeywords(input.lines[k])

(***************************************************************************)
(* Body lines                                                              *)
(***************************************************************************)

\* the loop is about to extract a blank line while a CheatScript patch
\* accepts body lines
ReadingBlankInCheat ==
    /\ Reading
    /\ trim(GetlineLine(input)) = <<>>
    /\ isAcceptingPatch
    /\ curPatch.type = AMS

C13_BlankLineCloses ==
    ReadingBlankInCheat
    => /\ ~isAcceptingPatch'
       /\ curPatchCollection'.patches = FinalPatches

C13_NothingAddedAfterBlank ==
    Returned /\ input.lines = <<LineFlagNsobid, LineEnabledAms, LineBody, LineBlank, LineBody>>
    => result.collections =
           <<[buildId |-> BuildIdA, targetType |-> NSO,
              patches |-> <<Patch(<<>>, <<>>, AMS, TRUE, 0, <<PatchContent(0, LineBody)>>)>>]>>

\* C13 (as claimed): a blank line read while a CheatScript patch accepts
\* body lines appends the patch to the current collection if it has contents
\* and ends the acceptance of body lines, so that a line after the blank
\* line is not added to the patch
C13_BlankLineClosesCheat ==
    /\ []C13_NothingAddedAfterBlank
    /\ [][C13_BlankLineCloses]_vars

(***************************************************************************)
(* Build-id flags                                                          *)
(***************************************************************************)

BuildIdB == <<"B", "2">>

LineFlagNrobid == FLAG_TAG \o SP \o NROBID_FLAG \o SP \o BuildIdB

\* the inputs whose meta pass ends at a first blank line, so that the main
\* pass reads every flag, tag and body line after it
FlagMaxLines == 6

FlagLines == {LineFlagNsobid, LineFlagNrobid, LineEnabledAms, LineBody}

InitFlag == InitOver({<<LineBlank>> \o t : t \in SeqsUpTo(FlagLines, FlagMaxLines)})

SpecFlag == InitFlag /\ [][Next]_vars

\* the name and the value of an @flag line without a comment: its second
\* word in lower case, and what follows that word
FlagNameOf(rawLine) ==
    LET line == trim(rawLine)
    IN  LowerUpTo(SubSeq(line, WordEnd(line, 1, 1) + 2, WordEnd(line, 1, 2)), Len(line))

FlagValueOf(rawLine) ==
    LET line == trim(rawLine)
    IN  trim(SubSeq(line, WordEnd(line, 1, 2) + 1, Len(line)))

ReadingBuildIdFlag == Reading /\ IsBuildIdFlagLine(GetlineLine(input))

C14_FlagEffect ==
    ReadingBuildIdFlag
    => /\ result'.collections =
              IF FinalPatches # <<>>
              THEN Append(result.collections, [curPatchCollection EXCEPT !.patches = FinalPatches])
              ELSE result.collections
       /\ curPatchCollection' =
              [buildId |-> FlagValueOf(GetlineLine(input)),
               targetType |-> IF FlagNameOf(GetlineLine(input)) = NROBID_FLAG THEN NRO ELSE NSO,
               patches |-> <<>>]
       /\ curPatch' = EmptyPatch
       /\ ~isAcceptingPatch'

C14_NoBodyUntilEnabled ==
    /\ ~isAcceptingPatch /\ isAcceptingPatch' => Reading /\ IsEnabledLine(GetlineLine(input))
    /\ ~isAcceptingPatch => Len(curPatch'.contents) <= Len(curPatch.contents)

\* C14: an @flag nsobid / nrobid line appends the patch in progress to the
\* current collection iff it has contents and that collection to the
\* Document iff it has patches; afterwards the current collection has no
\* patches, the flag's value as buildId and NSO or NRO as targetType, the
\* patch in progress is a fresh one, and no body line adds content until an
\* @enabled or @disabled tag is read
C14_BuildIdFlagStartsCollection == [][C14_FlagEffect /\ C14_NoBodyUntilEnabled]_vars

C14_Witness ==
    /\ pc = "parse"
    /\ Len(result.collections) = 1
    /\ Len(result.collections[1].patches) = 2
    /\ result.collections[1].buildId = BuildIdA
    /\ curPatchCollection = [buildId |-> BuildIdB, targetType |-> NRO, patches |-> <<>>]
    /\ curPatch = EmptyPatch
    /\ ~isAcceptingPatch
    /\ IsBuildIdFlagLine(input.lines[input.pos - 1])

(***************************************************************************)
(* Patch starts                                                            *)
(***************************************************************************)

LineEnabledHeap == ENABLED_TAG \o SP \o PATCH_TYPE_HEAP
LineDisabled == DISABLED_TAG
LineEnabledBin == ENABLED_TAG \o SP \o PATCH_TYPE_BIN

TypeMaxLines == 4

TypeLines ==
    {LineFlagNsobid, LineEnabledHeap, LineDisabled, LineEnabledBin, LineEnabledAms,
     LineCheatHeader, LineBody}

InitType == InitOver({<<LineBlank>> \o t : t \in SeqsUpTo(TypeLines, TypeMaxLines)})

SpecType == InitType /\ [][Next]_vars

\* the token after the tag of an @enabled / @disabled line without a comment
PatchTokenOf(rawLine) ==
    LET line == trim(rawLine)
    IN  LowerUpTo(trim(SubSeq(line, WordEnd(line, 1, 1) + 1, WordEnd(line, 1, 2))), Len(line))

\* the loop is about to extract an @enabled / @disabled line with a build id set
ReadingPatchTag ==
    Reading /\ IsEnabledLine(GetlineLine(input)) /\ curPatchCollection.buildId # <<>>

\* C15 (as claimed): an @enabled / @disabled tag read with a non-empty
\* buildId leaves a newly started patch in progress: no contents, enabled iff
\* the tag is @enabled, type Heap for the token heap, CheatScript for ams,
\* and otherwise Binary (or CheatScript if the patch before was CheatScript),
\* whatever patch was in progress before
C15_PatchTagStartsNewPatch ==
    [][ReadingPatchTag
       => /\ curPatch'.contents = <<>>
          /\ curPatch'.enabled = (TagOf(GetlineLine(input)) = ENABLED_TAG)
          /\ curPatch'.type =
                 IF PatchTokenOf(GetlineLine(input)) = PATCH_TYPE_HEAP THEN HEAP
                 ELSE IF PatchTokenOf(GetlineLine(input)) = PATCH_TYPE_AMS THEN AMS
                 ELSE IF curPatch.type = AMS /\ curPatch'.type = AMS THEN AMS
                 ELSE BIN]_vars

(***************************************************************************)
(* Name and author of a patch                                              *)
(***************************************************************************)

LineEnabled == ENABLED_TAG

CommentOf(text) == <<"/", "/", " ">> \o text

LineCommentPair == CommentOf(<<"N", " ", "[", "A", "]">>)
LineCommentPlain == CommentOf(<<"N">>)
LineCommentOpenOnly == CommentOf(<<"N", " ", "[", "A">>)
LineCommentCloseFirst == CommentOf(<<"N", "]", " ", "[", "A">>)

NameMaxLines == 4

NameLines ==
    {LineFlagNsobid, LineEnabled, LineCommentPair, LineCommentPlain, LineCommentOpenOnly,
     LineCommentCloseFirst}

InitName == InitOver({<<LineBlank>> \o t : t \in SeqsUpTo(NameLines, NameMaxLines)})

SpecName == InitName /\ [][Next]_vars

\* the first '[' and the last ']' of a comment, 1-based, 0 if there is none
FirstOpen(c) == LET i == FindIf(c, 1, {"["}, TRUE) IN IF i > Len(c) THEN 0 ELSE i

LastClose(c) == FindLastIf(c, {"]"}, TRUE)

\* the comment holds a bracket pair: a '[' with a ']' after it
HasBracketPair(c) == FirstOpen(c) # 0 /\ LastClose(c) > FirstOpen(c)

NameAsClaimed(c) ==
    IF HasBracketPair(c) THEN trim(SubSeq(c, 1, FirstOpen(c) - 1)) ELSE c

AuthorAsClaimed(c) ==
    IF HasBracketPair(c) THEN trim(SubSeq(c, FirstOpen(c) + 1, LastClose(c) - 1)) ELSE <<>>

\* C16 (as claimed): a non-CheatScript patch started by @enabled / @disabled
\* takes its name and author from the last full-line comment: with a bracket
\* pair, the text before the first '[' and the text between the first '['
\* and the last ']'; without one, the whole comment and no author
C16_NameAuthorFromComment ==
    [][ReadingPatchTag /\ curPatch'.type # AMS
       => /\ curPatch'.name = NameAsClaimed(lastCommentLine)
          /\ curPatch'.author = AuthorAsClaimed(lastCommentLine)]_vars

(***************************************************************************)
(* The legacy @nsobid tag                                                  *)
(***************************************************************************)

LineLegacyValue == NSOBID_TAG \o SP \o SP \o BuildIdCd

LegacyValueMaxLines == 5

LegacyValueLines ==
    {LineFlagNrobid, LineEnabledAms, LineBody, LineLegacyValue, LineCommentPlain}

InitLegacyValue ==
    InitOver({<<LineBlank>> \o t : t \in SeqsUpTo(LegacyValueLines, LegacyValueMaxLines)})

SpecLegacyValue == InitLegacyValue /\ [][Next]_vars

\* a legacy line `@nsobid <value>`: the tag as a word of its own, then a value
IsLegacyValueLine(rawLine) ==
    /\ IsLegacyLine(rawLine)
    /\ TagOf(rawLine) = NSOBID_TAG
    /\ WordEnd(trim(rawLine), 1, 1) < Len(trim(rawLine))

\* the trimmed text after the tag of a legacy line without a comment
LegacyValueOf(rawLine) ==
    LET line == trim(rawLine)
    IN  trim(SubSeq(line, WordEnd(line, 1, 1) + 1, Len(line)))

\* C17: a legacy `@nsobid <value>` line sets the current collection's
\* targetType to NSO and its buildId to the trimmed text after the tag, and
\* leaves the collection's patches, the patch in progress, the accepting
\* flag, the last comment and the Document's collections as they are
C17_LegacyTagOnlyRelabels ==
    [][Reading /\ IsLegacyValueLine(GetlineLine(input))
       => /\ curPatchCollection' =
                 [curPatchCollection EXCEPT !.targetType = NSO,
                                            !.buildId = LegacyValueOf(GetlineLine(input))]
          /\ UNCHANGED <<curPatch, isAcceptingPatch, lastCommentLine, result, stopParsing>>]_vars

C17_Witness ==
    /\ pc = "parse"
    /\ input.pos > 1
    /\ IsLegacyValueLine(input.lines[input.pos - 1])
    /\ curPatchCollection.buildId = BuildIdCd
    /\ curPatchCollection.targetType = NSO
    /\ curPatch.contents # <<>>
    /\ isAcceptingPatch
    /\ lastCommentLine # <<>>

(***************************************************************************)
(* The endianness, offset-shift and verbosity flags                        *)
(***************************************************************************)

LineFlagBe == FLAG_TAG \o SP \o BIG_ENDIAN_FLAG
LineFlagLe == FLAG_TAG \o SP \o LITTLE_ENDIAN_FLAG
LineFlagOffsetShift == FLAG_TAG \o SP \o OFFSET_SHIFT_FLAG \o SP \o <<"-", "3">>
LineFlagOffsetShiftBig == FLAG_TAG \o SP \o OFFSET_SHIFT_FLAG \o SP \o IntMinDigits
LineFlagDebugInfo == FLAG_TAG \o SP \o DEBUG_INFO_FLAG
LineFlagPrintValues == FLAG_TAG \o SP \o ALT_DEBUG_INFO_FLAG

InertFlagLines ==
    {LineFlagBe, LineFlagLe, LineFlagOffsetShift, LineFlagOffsetShiftBig, LineFlagDebugInfo,
     LineFlagPrintValues}

\* text with one more line after its first k lines
InsertLine(text, k, line) == SubSeq(text, 1, k) \o <<line>> \o SubSeq(text, k + 1, Len(text))

InertMaxLines == 3

InertBaseLines == {LineFlagNsobid, LineEnabledAms, LineCheatHeader, LineBody}

\* a blank line ending the meta pass and a build-id flag, then flag, tag,
\* header and body lines, as they are and with one of the flag lines put in
\* at any place
InertTexts ==
    LET base == {<<LineBlank, LineFlagNsobid>> \o t : t \in SeqsUpTo(InertBaseLines, InertMaxLines)}
    IN  base \cup UNION {{InsertLine(t, k, f) : k \in 0..Len(t), f \in InertFlagLines} : t \in base}

InitInert == InitOver(InertTexts)

SpecInert == InitInert /\ [][Next]_vars

IsInertFlagLine(rawLine) == rawLine \in InertFlagLines

NotInertFlagLine(rawLine) == ~IsInertFlagLine(rawLine)

\* the input without its endianness, offset-shift and verbosity flag lines
WithoutInertFlags(lines) == SelectSeq(lines, NotInertFlagLine)

\* an outcome with the line number of every patch put to 0
WithoutLineNum(outcome) ==
    [outcome EXCEPT !.collections =
        [i \in 1..Len(@) |->
            [@[i] EXCEPT !.patches =
                [j \in 1..Len(@) |-> [@[j] EXCEPT !.lineNum = 0]]]]]

LineBadTag == <<"@", "b", "a", "d">>
LineBadFlag == FLAG_TAG \o SP \o <<"z", "z">>
LineFlagNoName == FLAG_TAG
LineProgram == PROGRAM_ID_TAG \o SP \o <<"0", "1">>
LineUrl == URL_TAG \o SP \o <<"u">>

SkippedLines ==
    {LineBadTag, LineBadFlag, LineFlagNoName, LineEchoL, LineTitleT, LineProgram, LineUrl}

SkipMaxLines == 3

\* a blank line ending the meta pass, then build-id, tag and body lines, one
\* of the skipped lines, and a body line or nothing after it
SkipTexts ==
    {<<LineBlank>> \o t \o <<x>> \o u :
        t \in SeqsUpTo({LineFlagNsobid, LineEnabledAms, LineBody}, SkipMaxLines),
        x \in SkippedLines,
        u \in {<<>>, <<LineBody>>}}

InitSkip == InitOver(SkipTexts)

SpecSkip == InitSkip /\ [][Next]_vars

KnownFlags ==
    {BIG_ENDIAN_FLAG, LITTLE_ENDIAN_FLAG, NSOBID_FLAG, NROBID_FLAG, OFFSET_SHIFT_FLAG,
     DEBUG_INFO_FLAG, ALT_DEBUG_INFO_FLAG}

IsUnknownTagLine(rawLine) ==
    /\ IsTagLine(rawLine)
    /\ TagOf(rawLine) \notin
           {STOP_PARSING_TAG, ENABLED_TAG, DISABLED_TAG, FLAG_TAG, TITLE_TAG, PROGRAM_ID_TAG, URL_TAG}
    /\ ~IsLegacyLine(rawLine)

IsUnknownFlagLine(rawLine) == IsFlagLine(rawLine) /\ FlagNameOf(rawLine) \notin KnownFlags

IsMetaTagLine(rawLine) ==
    IsTagLine(rawLine) /\ TagOf(rawLine) \in {TITLE_TAG, PROGRAM_ID_TAG, URL_TAG}

IsMainEchoLine(rawLine) == CharAt(trim(rawLine), 0) = "#"

\* the next iteration extracts the next line
LoopGoesOn == pc' = "parse" /\ ~stopParsing' /\ input'.pos = input.pos + 1

C19_WarningOnly ==
    Reading /\ (IsUnknownTagLine(GetlineLine(input)) \/ IsUnknownFlagLine(GetlineLine(input)))
    => /\ LogsOne(IF IsFlagLine(GetlineLine(input))
                  THEN "WARNING ignored unrecognized flag type: "
                  ELSE "WARNING ignored unrecognized tag: ")
       /\ UNCHANGED <<curPatch, curPatchCollection, result, isAcceptingPatch, stopParsing>>
       /\ LoopGoesOn

C19_NoStateChange ==
    Reading /\ (IsMainEchoLine(GetlineLine(input)) \/ IsMetaTagLine(GetlineLine(input)))
    => /\ UNCHANGED <<lastCommentLine, curPatch, curPatchCollection, curOffsetShift,
                      curIsBigEndian, isAcceptingPatch, stopParsing, logDebugInfo, result>>
       /\ LoopGoesOn

\* C19: a line with an unrecognized tag or an @flag line with an unrecognized
\* flag name logs one warning, leaves the patch in progress, the current
\* collection, the Document, the accepting flag and the stop flag as they
\* are, and the loop goes on to the next line; an echo line and a metadata
\* tag line read by the main pass change no parsing status either
C19_SkippedLinesRecoverable == [][C19_WarningOnly /\ C19_NoStateChange]_vars

C19_Witness ==
    /\ pc = "parse"
    /\ input.pos > 2
    /\ IsUnknownTagLine(input.lines[input.pos - 2])
    /\ Len(curPatch.contents) = 2
    /\ \E i \in 1..Len(logOs) : logOs[i].text = "WARNING ignored unrecognized tag: "

(***************************************************************************)
(* The type of the patches that have contents                              *)
(***************************************************************************)

\* every patch of a sequence of patches is a CheatScript patch
AllAms(patches) == \A j \in 1..Len(patches) : patches[j].type = AMS

C20_ContentsOnlyInAms ==
    /\ curPatch.contents # <<>> => curPatch.type = AMS
    /\ AllAms(curPatchCollection.patches)
    /\ \A i \in 1..Len(result.collections) : AllAms(result.collections[i].patches)

\* a line that reaches the default case of the switch with some text
IsBodyLine(rawLine) == CharAt(trim(rawLine), 0) \notin {Nul, "@", "#", "[", "/"}

C20_BinHeapBodyAddsNothing ==
    Reading /\ IsBodyLine(GetlineLine(input)) /\ curPatch.type # AMS
    => UNCHANGED <<curPatch, curPatchCollection, result>>

\* C20: at every point of the parse a patch in progress that has contents
\* is a CheatScript patch, and so is every patch of the current collection
\* and of the Document; a body line read for a Binary or Heap patch adds no
\* content entry, so no such patch is ever emitted
C20_OnlyCheatScriptEmitted ==
    /\ []C20_ContentsOnlyInAms
    /\ [][C20_BinHeapBodyAddsNothing]_vars

C20_Witness ==
    /\ Returned
    /\ curPatch.type = HEAP
    /\ isAcceptingPatch
    /\ curPatch.contents = <<>>
    /\ IsBodyLine(input.lines[Len(input.lines)])
    /\ curLineNum = Len(input.lines) + 1
    /\ result.collections = <<>>

(***************************************************************************)
(* The build id under which a patch is returned                            *)
(***************************************************************************)

\* the label of a collection
LabelOf(collection) == <<collection.buildId, collection.targetType>>

\* the current collection holds a patch, or a patch has been started in it
PatchHeldOrStarted ==
    curPatchCollection.patches # <<>> \/ curPatch # EmptyPatch \/ isAcceptingPatch

\* the step leaves a fresh collection: no patch held, none started
FreshCollectionAfter ==
    curPatchCollection'.patches = <<>> /\ curPatch' = EmptyPatch /\ ~isAcceptingPatch'

\* the Document only grows, by the current collection under the label it has
C21_CollectionsKeepLabel ==
    \/ result'.collections = result.collections
    \/ result'.collections =
           Append(result.collections, [curPatchCollection EXCEPT !.patches = FinalPatches])

C21_NoRelabel ==
    LabelOf(curPatchCollection') # LabelOf(curPatchCollection)
    => ~PatchHeldOrStarted \/ FreshCollectionAfter

C21_OnlyLegacyRelabels ==
    LabelOf(curPatchCollection') # LabelOf(curPatchCollection)
    => \/ ~PatchHeldOrStarted
       \/ FreshCollectionAfter
       \/ /\ Reading /\ IsLegacyLine(GetlineLine(input))
          /\ LabelOf(curPatchCollection') = <<LegacyValueOf(GetlineLine(input)), NSO>>
          /\ UNCHANGED <<curPatch, isAcceptingPatch, result>>
          /\ curPatchCollection'.patches = curPatchCollection.patches

\* C21 (as claimed): a collection joins the Document under the label it has,
\* and no line changes the label of a collection that holds a patch or in
\* which a patch has been started, so every returned patch sits under the
\* buildId and targetType that were current when it was started
C21_PatchUnderItsBuildId == [][C21_CollectionsKeepLabel /\ C21_NoRelabel]_vars

\* C21 (amended): the same, but for a legacy @nsobid line, which puts its
\* value and NSO on the current collection with the patches it holds and the
\* patch in progress; an @flag nsobid / nrobid line never does
C21_PatchUnderItsBuildIdUnlessLegacy ==
    [][C21_CollectionsKeepLabel /\ C21_OnlyLegacyRelabels]_vars

C21_Witness ==
    /\ Returned
    /\ Len(input.lines) = 5
    /\ SubSeq(input.lines, 2, 5) = <<LineFlagNrobid, LineEnabledAms, LineBody, LineLegacyValue>>
    /\ Len(result.collections) = 1
    /\ LabelOf(result.collections[1]) = <<BuildIdCd, NSO>>
    /\ Len(result.collections[1].patches) = 1

=============================================================================
